---- MODULE Spec2Model ----
(***************************************************************************)
(* Model of src/app.py: the sales funnel planning page.                    *)
(*                                                                         *)
(* One run of the script is one behaviour: create_funnel_plan computes the *)
(* final targets and the planned frame, the module-level code builds the   *)
(* all-zero actual frame and applies the entered data points in order,     *)
(* and the page is rendered.                                               *)
(*                                                                         *)
(* Numbers are exact rationals <<n, d>> in lowest terms with d > 0; the    *)
(* binary floating point of the interpreter is not modelled.              *)
(*                                                                         *)
(* SpecPlan runs the planner on arguments wider than the sliders of lines  *)
(* 73-75 allow, and Spec runs the whole script on data points whose period *)
(* is wider than the slider of line 84 allows: neither the function nor    *)
(* the loop checks what it is given.                                       *)
(***************************************************************************)
EXTENDS Integers, Sequences, FiniteSets, TLC

\* ---- bounds of the model ----
MaxPeriods == 3
MaxWins == 4
MaxRate == 3
MaxVal == 2
MaxPoints == 2

\* ---- exact rational arithmetic ----
RECURSIVE Gcd(_, _)
Gcd(a, b) == IF b = 0 THEN a ELSE Gcd(b, a % b)

Abs(x) == IF x < 0 THEN -x ELSE x

Sign(x) == IF x < 0 THEN -1 ELSE 1

\* the rational n/d (d # 0) in lowest terms with a positive denominator
Rat(n, d) ==
    LET g == Gcd(Abs(n), Abs(d))
    IN  <<(Sign(d) * n) \div g, Abs(d) \div g>>

FromInt(k) == <<k, 1>>

RatMul(a, b) == Rat(a[1] * b[1], a[2] * b[2])

\* a / b, b # 0
RatDiv(a, b) == Rat(a[1] * b[2], a[2] * b[1])

\* ---- line 7 ----
stages == <<"Expression of Interest", "Conversations", "Deep Conversations",
            "Proposals", "Wins">>

StageSet == {stages[j] : j \in 1..Len(stages)}

\* reversed(stages), line 21
reversed_stages == [j \in 1..Len(stages) |-> stages[Len(stages) + 1 - j]]

\* builtin round() of a rational: nearest integer, ties to the even one
round(x) ==
    LET q == x[1] \div x[2]
        rem == x[1] - q * x[2]
    IN  IF 2 * rem < x[2] THEN q
        ELSE IF 2 * rem > x[2] THEN q + 1
        ELSE IF q % 2 = 0 THEN q ELSE q + 1

\* linspace with endpoint=False: the step is (stop - start) / num
linspace_open(start, stop, num) ==
    [i \in 1..num |-> Rat(start * num + (i - 1) * (stop - start), num)]

\* np.linspace(start, stop, num) with the default endpoint=True: num samples,
\* sample i = start + i * (stop - start) / (num - 1), the last one set to
\* stop; for num = 1 the step is undefined and the only sample is start
linspace(start, stop, num) ==
    [i \in 1..num |->
        IF num = 1 THEN FromInt(start)
        ELSE IF i = num THEN FromInt(stop)
        ELSE Rat(start * (num - 1) + (i - 1) * (stop - start), num - 1)]

\* np.arange(total_periods), line 27
arange(n) == [i \in 1..n |-> i - 1]

\* the multiplier multiplied, not divided, by the rate
RECURSIVE multiplier_times(_, _)
multiplier_times(k, rate) ==
    IF k = 0 THEN FromInt(1) ELSE RatMul(multiplier_times(k - 1, rate), rate)

\* the multiplier before the k-th assignment of the loop of lines 21-23
\* (k = 0 is Wins): starts at 1 and is divided by conversion_rate each turn
RECURSIVE multiplier(_, _)
multiplier(k, rate) ==
    IF k = 0 THEN FromInt(1) ELSE RatDiv(multiplier(k - 1, rate), rate)

\* the count of each stage rounded before the next one is derived from it
RECURSIVE raw_count_rounded(_, _, _)
raw_count_rounded(k, wins, rate) ==
    IF k = 0 THEN FromInt(wins)
    ELSE RatDiv(FromInt(round(raw_count_rounded(k - 1, wins, rate))), rate)

\* the unrounded final_counts of line 22, by position in reversed(stages)
raw_count(k, wins, rate) == RatMul(FromInt(wins), multiplier(k, rate))

\* lines 19-24: the final counts, rounded once after the loop
final_counts_of(wins, rate) ==
    [s \in StageSet |->
        LET k == CHOOSE j \in 1..Len(stages) : reversed_stages[j] = s
        IN  round(raw_count(k - 1, wins, rate))]

\* ---- inputs ----
\* conversion rates -1/d, 0 and n/d <= 1
Rates == UNION {{Rat(n, d) : n \in -1..d} : d \in 1..MaxRate}

\* the default rate of line 75 and another value of its slider
SliderRates == {Rat(1, 2), Rat(4, 5)}

\* values of one data point, lines 85-90: a non-negative integer per stage
StageValues ==
    {f \in [StageSet -> 0..MaxVal] :
        \A j \in 1..(Len(stages) - 1) : f[stages[j]] >= f[stages[j + 1]]}

NoCounts == [s \in StageSet |-> 0]
NoFrame == [s \in StageSet |-> <<>>]

VARIABLES
    pc,              \* position in the script
    total_periods,   \* line 73
    target_wins,     \* line 74
    conversion_rate, \* line 75
    final_counts,    \* line 24
    planned_time,    \* planned_df[time_label]
    planned_df,      \* planned_df[stage]
    actual_time,     \* actual_df[time_label]
    actual_df,       \* actual_df[stage]
    error,           \* the exception that ended the script, or "none"
    num_applied,     \* data points applied so far by the loop of line 102
    last_t,          \* the period of the data point the loop took last
    last_values,     \* the stage values the loop assigned last
    all_in_range     \* every applied data point had 0 <= t <= total_periods-1

vars == <<pc, total_periods, target_wins, conversion_rate, final_counts,
          planned_time, planned_df, actual_time, actual_df, error,
          num_applied, last_t, last_values, all_in_range>>

\* the state before line 94, for given arguments of create_funnel_plan
Start(periods, wins, rate) ==
    /\ pc = "plan"
    /\ total_periods = periods
    /\ target_wins = wins
    /\ conversion_rate = rate
    /\ final_counts = NoCounts
    /\ planned_time = <<>>
    /\ planned_df = NoFrame
    /\ actual_time = <<>>
    /\ actual_df = NoFrame
    /\ error = "none"
    /\ num_applied = 0
    /\ last_t = 0
    /\ last_values = NoCounts
    /\ all_in_range = TRUE

\* the script with the default target_wins of line 74 and a slider rate
Init ==
    \E periods \in 1..MaxPeriods, rate \in SliderRates :
        Start(periods, 4, rate)

\* create_funnel_plan with any arguments, valid or not
InitPlan ==
    \E periods \in 1..MaxPeriods, wins \in -1..MaxWins, rate \in Rates :
        Start(periods, wins, rate)

\* lines 18-33 (called at line 94): a zero rate makes the division of
\* line 23 raise; otherwise the frame is returned
create_funnel_plan ==
    /\ pc = "plan"
    /\ IF conversion_rate[1] = 0
       THEN /\ pc' = "error"
            /\ error' = "ZeroDivisionError"
            /\ UNCHANGED <<final_counts, planned_time, planned_df>>
       ELSE /\ pc' = "build"
            /\ error' = "none"
            /\ final_counts' = final_counts_of(target_wins, conversion_rate)
            /\ planned_time' = arange(total_periods)
            /\ planned_df' = [s \in StageSet |->
                                linspace(0, final_counts'[s], total_periods)]
    /\ UNCHANGED <<total_periods, target_wins, conversion_rate, actual_time,
                   actual_df, num_applied, last_t, last_values, all_in_range>>

\* every stage column set to the period column
axis_frame(time) == [s \in StageSet |-> [i \in 1..Len(time) |-> FromInt(time[i])]]

\* lines 98-99: every stage column is 0 on every row of the frame
zero_frame(time) == [s \in StageSet |-> [i \in 1..Len(time) |-> FromInt(0)]]

\* lines 97-99: the actual frame on the planned period axis, all zero
build_actual_df ==
    /\ pc = "build"
    /\ pc' = "apply"
    /\ actual_time' = planned_time
    /\ actual_df' = zero_frame(actual_time')
    /\ UNCHANGED <<total_periods, target_wins, conversion_rate, final_counts,
                   planned_time, planned_df, error, num_applied, last_t,
                   last_values, all_in_range>>

\* line 105 without the case t = 0
linear_vals_always(val, t) == linspace(0, val, t + 1)

\* line 105
linear_vals(val, t) == IF t > 0 THEN linspace(0, val, t + 1) ELSE <<FromInt(val)>>

\* the rows selected by actual_df[time_label] <= t, line 106
rows_le(time, t) == {i \in 1..Len(time) : time[i] <= t}

\* .loc[mask, stage] = values, line 106: as many values as selected rows are
\* assigned in row order; a one-element list on an empty selection assigns
\* nothing; any other length is refused
loc_accepts(time, t, vals) ==
    \/ Cardinality(rows_le(time, t)) = Len(vals)
    \/ Cardinality(rows_le(time, t)) = 0 /\ Len(vals) = 1

\* lines 104-106 without the assignment of line 107
apply_stage_no_tail(time, col, t, val) ==
    LET lv == linear_vals(val, t)
        sel == rows_le(time, t)
    IN  [i \in 1..Len(col) |->
            IF i \in sel /\ Cardinality(sel) = Len(lv)
            THEN lv[Cardinality({j \in sel : j <= i})]
            ELSE col[i]]

\* lines 104-107 with a tail that keeps what an earlier point put there
apply_stage_keep(time, col, t, val) ==
    LET lv == linear_vals(val, t)
        sel == rows_le(time, t)
    IN  [i \in 1..Len(col) |->
            IF time[i] > t
            THEN (IF col[i] = FromInt(0) THEN FromInt(val) ELSE col[i])
            ELSE IF i \in sel /\ Cardinality(sel) = Len(lv)
                 THEN lv[Cardinality({j \in sel : j <= i})]
                 ELSE col[i]]

\* lines 104-107 for one stage
apply_stage(time, col, t, val) ==
    LET lv == linear_vals(val, t)
        sel == rows_le(time, t)
    IN  [i \in 1..Len(col) |->
            IF time[i] > t THEN FromInt(val)
            ELSE IF i \in sel /\ Cardinality(sel) = Len(lv)
                 THEN lv[Cardinality({j \in sel : j <= i})]
                 ELSE col[i]]

\* lines 103-107 for every stage
apply_point(time, df, t, values) ==
    [s \in StageSet |-> apply_stage(time, df[s], t, values[s])]

InRange(t) == 0 <= t /\ t <= total_periods - 1

\* one turn of the loop of line 102; the first stage whose assignment is
\* refused ends the script before any column is changed
apply_actual_point ==
    /\ pc = "apply"
    /\ num_applied < MaxPoints
    /\ \E t \in -1..total_periods, values \in StageValues :
        /\ last_t' = t
        /\ all_in_range' = (all_in_range /\ InRange(t))
        /\ num_applied' = num_applied + 1
        /\ IF loc_accepts(actual_time, t, linear_vals(values[stages[1]], t))
           THEN /\ actual_df' = apply_point(actual_time, actual_df, t, values)
                /\ last_values' = values
                /\ UNCHANGED <<pc, error>>
           ELSE /\ pc' = "error"
                /\ error' = "ValueError"
                /\ UNCHANGED <<actual_df, last_values>>
    /\ UNCHANGED <<total_periods, target_wins, conversion_rate, final_counts,
                   planned_time, planned_df, actual_time>>

\* lines 110-118: the loop is over, the chart and the table are shown
render ==
    /\ pc = "apply"
    /\ pc' = "done"
    /\ UNCHANGED <<total_periods, target_wins, conversion_rate, final_counts,
                   planned_time, planned_df, actual_time, actual_df, error,
                   num_applied, last_t, last_values, all_in_range>>

Next ==
    \/ create_funnel_plan
    \/ build_actual_df
    \/ apply_actual_point
    \/ render

Spec == Init /\ [][Next]_vars

\* the script with no data point entered (num_points = 0, line 79)
NextPlan ==
    \/ create_funnel_plan
    \/ build_actual_df
    \/ render

SpecPlan == InitPlan /\ [][NextPlan]_vars

\* ---- properties ----

\* create_funnel_plan has returned its frame
Planned == pc \in {"build", "apply", "done"} \/ (pc = "error" /\ error = "ValueError")

\* the loop of line 102 is running or over, and nothing was raised
Applied == pc \in {"apply", "done"}

\* a <= b for rationals
RatLeq(a, b) == a[1] * b[2] <= b[1] * a[2]

\* b^k for integers
RECURSIVE Pow(_, _)
Pow(b, k) == IF k = 0 THEN 1 ELSE b * Pow(b, k - 1)

\* conversion_rate in (0,1]
ValidRate == conversion_rate[1] > 0 /\ conversion_rate[1] <= conversion_rate[2]

NonDecreasing(col) == \A i \in 1..(Len(col) - 1) : RatLeq(col[i], col[i + 1])

\* stage k transitions before Wins
StageBefore(k) == stages[Len(stages) - k]

\* C1: for a rate in (0,1] and target_wins >= 1 the final target of Wins is
\* target_wins and every stage's final target is at least that of the stage
\* after it.
C1_FunnelNarrows ==
    (Planned /\ ValidRate /\ target_wins >= 1) =>
        /\ final_counts["Wins"] = target_wins
        /\ \A j \in 1..(Len(stages) - 1) :
              final_counts[stages[j]] >= final_counts[stages[j + 1]]

C1_Witness ==
    /\ Planned
    /\ conversion_rate = <<2, 3>>
    /\ target_wins = 3
    /\ final_counts["Wins"] = 3
    /\ final_counts["Proposals"] = 4
    /\ final_counts["Expression of Interest"] = 15

\* C2: the final target of the stage k transitions before Wins is an integer
\* nearest to target_wins * (1/conversion_rate)^k, the exact value of the
\* whole chain (no intermediate value is rounded); target_wins = 4 at rate
\* 1/2 gives 4, 8, 16, 32, 64.
C2_RoundedOnce ==
    Planned =>
        /\ \A k \in 0..(Len(stages) - 1) :
              2 * Abs(final_counts[StageBefore(k)] * Pow(conversion_rate[1], k)
                      - target_wins * Pow(conversion_rate[2], k))
                 <= Abs(Pow(conversion_rate[1], k))
        /\ (target_wins = 4 /\ conversion_rate = <<1, 2>>) =>
              /\ final_counts["Wins"] = 4
              /\ final_counts["Proposals"] = 8
              /\ final_counts["Deep Conversations"] = 16
              /\ final_counts["Conversations"] = 32
              /\ final_counts["Expression of Interest"] = 64

C2_Witness ==
    /\ Planned
    /\ target_wins = 1
    /\ conversion_rate = <<2, 3>>
    /\ final_counts["Proposals"] = 2
    /\ final_counts["Deep Conversations"] = 2
    /\ final_counts["Conversations"] = 3
    /\ final_counts["Expression of Interest"] = 5

\* C3: for total_periods >= 2 the planned series of every stage has
\* total_periods samples on the axis 0..total_periods-1, starts at 0, ends at
\* the stage's final target, and sample i is final_target * i/(total_periods-1).
C3_PlannedRamp ==
    (Planned /\ total_periods >= 2) =>
        /\ Len(planned_time) = total_periods
        /\ \A i \in 1..total_periods : planned_time[i] = i - 1
        /\ \A s \in StageSet :
              /\ Len(planned_df[s]) = total_periods
              /\ planned_df[s][1] = FromInt(0)
              /\ planned_df[s][total_periods] = FromInt(final_counts[s])
              /\ \A i \in 1..total_periods :
                    planned_df[s][i][1] * (total_periods - 1)
                        = final_counts[s] * planned_time[i] * planned_df[s][i][2]

C3_Witness ==
    /\ Planned
    /\ total_periods = 3
    /\ final_counts["Proposals"] = 3
    /\ planned_df["Proposals"] = <<FromInt(0), <<3, 2>>, FromInt(3)>>

\* C4: with total_periods = 1 (and a rate in (0,1], target_wins >= 1) the
\* planned series of every stage is the single sample final target.
C4_SingleSampleIsTarget ==
    (Planned /\ total_periods = 1 /\ ValidRate /\ target_wins >= 1) =>
        \A s \in StageSet : planned_df[s] = <<FromInt(final_counts[s])>>

\* C5: after one data point (t, values) in range on the all-zero series, the
\* sample of a stage with value v is v * i / t at each period i <= t and v at
\* each period i > t when t > 0, and v at every period when t = 0.
C5_SinglePointRamp ==
    (Applied /\ num_applied = 1 /\ InRange(last_t)) =>
        \A s \in StageSet :
            /\ Len(actual_df[s]) = total_periods
            /\ \A i \in 1..total_periods :
                  IF last_t > 0 /\ actual_time[i] <= last_t
                  THEN /\ actual_df[s][i][1] * last_t
                            = last_values[s] * actual_time[i] * actual_df[s][i][2]
                       /\ actual_df[s][i][2] > 0
                  ELSE actual_df[s][i] = FromInt(last_values[s])

C5_Witness ==
    /\ Applied
    /\ num_applied = 1
    /\ total_periods = 3
    /\ last_t = 2
    /\ last_values["Conversations"] = 1
    /\ actual_df["Conversations"] = <<FromInt(0), <<1, 2>>, FromInt(1)>>

\* C6: after one or more data points in range, the actual series of every
\* stage is the series that the last point alone gives on the all-zero series.
C6_LastPointWins ==
    (Applied /\ num_applied >= 1 /\ all_in_range) =>
        actual_df = apply_point(actual_time, zero_frame(actual_time),
                                last_t, last_values)

C6_Witness ==
    /\ Applied
    /\ num_applied = 2
    /\ all_in_range
    /\ total_periods = 3
    /\ last_t = 1
    /\ last_values["Expression of Interest"] = 1
    /\ actual_df["Expression of Interest"] = <<FromInt(0), FromInt(1), FromInt(1)>>

\* C7: with no data point the actual series is 0 at every period for every
\* stage, on the period axis 0..total_periods-1 of the planned series.
C7_NoPointAllZero ==
    (pc = "done" /\ num_applied = 0) =>
        /\ actual_time = planned_time
        /\ Len(actual_time) = total_periods
        /\ \A i \in 1..total_periods : actual_time[i] = i - 1
        /\ \A s \in StageSet :
              /\ Len(actual_df[s]) = total_periods
              /\ \A i \in 1..total_periods : actual_df[s][i] = FromInt(0)

C7_Witness ==
    /\ pc = "done"
    /\ num_applied = 0
    /\ total_periods = 3
    /\ final_counts["Wins"] = 2
    /\ actual_df["Wins"] = <<FromInt(0), FromInt(0), FromInt(0)>>

\* C8: with conversion_rate <= 0 or target_wins < 0 the planner fails (any
\* exception counts as the failure) and produces neither final targets nor a
\* planned series.
C8_PlannerRejects ==
    (pc # "plan" /\ (conversion_rate[1] <= 0 \/ target_wins < 0)) =>
        /\ error # "none"
        /\ final_counts = NoCounts
        /\ planned_df = NoFrame

\* C9: a data point whose period is outside 0..total_periods-1 is refused
\* (any exception counts as the refusal) and the series stay as they were.
C9_PointOutOfRangeRejected ==
    [][(pc = "apply" /\ num_applied' = num_applied + 1 /\ ~InRange(last_t')) =>
          (error' # "none" /\ actual_df' = actual_df)]_vars

\* C10: every planned series with a final target >= 0 and every actual series
\* after data points in range is non-decreasing along the period axis.
C10_NonDecreasing ==
    /\ Planned =>
          \A s \in StageSet :
              final_counts[s] >= 0 => NonDecreasing(planned_df[s])
    /\ (Applied /\ all_in_range) =>
          \A s \in StageSet : NonDecreasing(actual_df[s])

C10_Witness ==
    /\ Applied
    /\ num_applied = 2
    /\ all_in_range
    /\ total_periods = 3
    /\ last_t = 1
    /\ final_counts["Proposals"] = 5
    /\ planned_df["Proposals"] = <<FromInt(0), <<5, 2>>, FromInt(5)>>
    /\ actual_df["Conversations"] = <<FromInt(0), FromInt(2), FromInt(2)>>

====
